---------------------------- MODULE Spec2Model ----------------------------
(***************************************************************************)
(* The attention-based hallucination verifier of                           *)
(* attention-hallucination-detection/backend/verifier.py                   *)
(* (class FactualConsistencyVerifier), with its capture adapters, and the  *)
(* retry decorator of paper-to-slides/error_handling.py.                   *)
(*                                                                         *)
(* Conventions.                                                            *)
(*  - A token or a text is a sequence of one-character strings.            *)
(*  - Floats are integers in hundredths: an attention weight 0.35 is 35,   *)
(*    the threshold 0.1 is 10, the factuality scores 0.1/0.5/0.9 are       *)
(*    10/50/90.  Only comparisons and maxima are computed on them.         *)
(*  - Python sequences are 0-based, TLA+ sequences 1-based: the weight of  *)
(*    index j of a vector w is w[j + 1].                                   *)
(*  - generated_text is kept by its length, the only thing the verifier    *)
(*    reads of it (line 150).                                              *)
(*  - Of the verbose diagnostics (print calls) only the warning of an      *)
(*    out-of-range layer index is modelled.                                *)
(***************************************************************************)
EXTENDS Integers, Sequences, FiniteSets

VARIABLES
    context_length,          \* self.context_length            (line 70)
    system_prompt_length,    \* self.system_prompt_length      (line 71)
    max_attention_threshold, \* self.max_attention_threshold   (line 73)
    min_sequence_length,     \* self.min_sequence_length       (line 74)
    generated_text_len,      \* len(self.generated_text)       (lines 94, 119)
    generation_step,         \* self.generation_step           (lines 86, 110)
    attention_cache,         \* self.attention_cache, in insertion order
    current_sequence,        \* self.current_sequence          (line 100)
    sequence_start_pos,      \* self.sequence_start_pos        (line 101)
    sequence_tokens,         \* self.sequence_tokens           (line 102)
    number_sequence_started, \* self.number_sequence_started   (line 89)
    max_system_attention,    \* self.max_system_attention      (line 90)
    verification_results,    \* self.verification_results      (line 82)
    input_len,               \* input_ids.shape[1] of the next __call__
    last_token,              \* last_token of the latest __call__ (line 115)
    first_position,          \* position of the first token of a scripted
                             \* episode
    attention_layer_index,   \* self.attention_layer_index    (line 75)
    num_layers,              \* len(attention_weights): layers of the model
    selected_layers,         \* layers the capture paths have read so far
    warnings,                \* capture paths that logged an out-of-range
                             \* layer index
    retry_call,              \* one call of a function wrapped with retry:
                             \* the wrapper's locals and what it has done
    pc,                      \* where run_verification is in its generate
                             \* and collect block (lines 852-971)
    raised                   \* exception the latest call propagated

verifier_vars ==
        << context_length, system_prompt_length, max_attention_threshold,
           min_sequence_length, generated_text_len, generation_step,
           attention_cache, current_sequence, sequence_start_pos,
           sequence_tokens, number_sequence_started, max_system_attention,
           verification_results, input_len, last_token, first_position,
           attention_layer_index, num_layers, selected_layers, warnings,
           raised >>

vars == << verifier_vars, retry_call, pc >>

config_vars == << context_length, system_prompt_length,
                  max_attention_threshold, min_sequence_length,
                  attention_layer_index, num_layers >>

capture_vars == << selected_layers, warnings >>

-----------------------------------------------------------------------------
(* Bounds of the model *)

\* tokens the host generates in one episode
MaxNewTokens == 8

\* distinct positions the capture adapters write to
MaxCachedPositions == 1

\* results of earlier episodes an instance holds when it is reset
MaxKeptResults == 1

\* layers of the host model
MaxLayers == 3

\* forward passes of an episode whose attention is captured
MaxForwardPasses == 3

\* generated positions whose attention the matrix is read of
MaxMatrixPositions == 3

\* largest max_retries a function is wrapped with
MaxRetries == 5

\* tokens at tracked positions in an episode with several candidates
MaxTrackedTokens == 5

-----------------------------------------------------------------------------
(* Program constants *)

\* default of max_attention_threshold (0.1)
DefaultThreshold == 10

\* default of min_sequence_length
DefaultMinSequenceLength == 6

\* default of attention_layer_index: the last layer
DefaultLayerIndex == -1

\* verbose of the forward hook as run_verification registers it (line 848)
\* and of the verifier as run_verification constructs it (line 824)
HookVerbose == FALSE
VerifierVerbose == TRUE

\* generated positions _track_sequence ignores (position < context_length + 5)
IgnoredPositions == 5

\* start_idx: the leading prompt positions left out of the scoring window
StartIdx == 5

\* defaults of retry: delay and backoff
DefaultDelay == 1
DefaultBackoff == 2

\* pc of an episode that is not run by run_verification
AnyHost == "any host"

NoException == "None"
ValueError == "ValueError"
\* last_token before the first decoded token
NoToken == <<"<no token>">>

-----------------------------------------------------------------------------
(* Characters and tokens *)

Digits == {"0", "1", "2", "3", "4", "5", "6", "7", "8", "9"}

UpperLetters == {"A", "B", "C", "D", "E", "F"}

LowerLetters == {"a", "b", "c", "d", "e", "f"}

Whitespace == {" "}

\* str.upper() on one character
UpperChar(c) ==
    CASE c = "a" -> "A" [] c = "b" -> "B" [] c = "c" -> "C"
      [] c = "d" -> "D" [] c = "e" -> "E" [] c = "f" -> "F"
      [] OTHER -> c

\* str.upper()
Upper(text) == [i \in 1..Len(text) |-> UpperChar(text[i])]

\* any(char.isdigit() for char in token)
ContainsDigit(token) == \E i \in 1..Len(token) : token[i] \in Digits

\* one character of the class [A-Z0-9\-\s]
InSequenceClass(c) == c \in UpperLetters \cup Digits \cup {"-"} \cup Whitespace

\* bool(re.match(r'[A-Z0-9\-\s]+$', token.upper()))
IsSequenceChar(token) ==
    /\ Len(token) > 0
    /\ \A i \in 1..Len(token) : InSequenceClass(Upper(token)[i])

\* c.isalnum()
IsAlnum(c) == c \in UpperLetters \cup LowerLetters \cup Digits

\* len([c for c in text if c.isalnum()])
EffectiveLength(text) == Cardinality({i \in 1..Len(text) : IsAlnum(text[i])})

\* str.strip()
Strip(text) ==
    LET solid == {i \in 1..Len(text) : text[i] \notin Whitespace}
    IN IF solid = {} THEN << >>
       ELSE LET lo == CHOOSE i \in solid : \A j \in solid : i <= j
                hi == CHOOSE i \in solid : \A j \in solid : j <= i
            IN [k \in 1..(hi - lo + 1) |-> text[lo + k - 1]]

-----------------------------------------------------------------------------
(* numpy helpers *)

Min2(a, b) == IF a <= b THEN a ELSE b

Max2(a, b) == IF a >= b THEN a ELSE b

\* array[lo:hi] for 0 <= lo and 0 <= hi
PySlice(array, lo, hi) ==
    LET stop == Min2(hi, Len(array))
    IN IF stop <= lo THEN << >>
       ELSE [k \in 1..(stop - lo) |-> array[lo + k]]

\* float(np.max(array)) of a non-empty array
ArrayMax(array) ==
    CHOOSE m \in {array[i] : i \in 1..Len(array)} :
        \A i \in 1..Len(array) : array[i] <= m

-----------------------------------------------------------------------------
(* The attention cache: a dict, kept as its items in insertion order *)

CacheKeys(cache) == {cache[i].position : i \in 1..Len(cache)}

\* position in self.attention_cache
CacheHas(cache, position) == position \in CacheKeys(cache)

\* self.attention_cache[position]
CacheGet(cache, position) ==
    LET i == CHOOSE k \in 1..Len(cache) : cache[k].position = position
    IN cache[i].weights

\* mutant: a key already present keeps its first vector
CachePut_KeepsFirst(cache, position, attention_weights) ==
    IF CacheHas(cache, position) THEN cache
    ELSE Append(cache, [position |-> position, weights |-> attention_weights])

\* self.attention_cache[position] = attention_weights: a key already present
\* keeps its place in the order, a new key goes last
CachePut(cache, position, attention_weights) ==
    IF CacheHas(cache, position)
    THEN [i \in 1..Len(cache) |->
            IF cache[i].position = position
            THEN [position |-> position, weights |-> attention_weights]
            ELSE cache[i]]
    ELSE Append(cache, [position |-> position, weights |-> attention_weights])

-----------------------------------------------------------------------------
(* The verifier object: its fields as one record, and its methods as        *)
(* operators from the object before the call to the object after it.  The  *)
(* field raised holds the exception the call propagates.                    *)

self ==
    [ context_length          |-> context_length,
      system_prompt_length    |-> system_prompt_length,
      max_attention_threshold |-> max_attention_threshold,
      min_sequence_length     |-> min_sequence_length,
      attention_layer_index   |-> attention_layer_index,
      generated_text_len      |-> generated_text_len,
      generation_step         |-> generation_step,
      attention_cache         |-> attention_cache,
      current_sequence        |-> current_sequence,
      sequence_start_pos      |-> sequence_start_pos,
      sequence_tokens         |-> sequence_tokens,
      number_sequence_started |-> number_sequence_started,
      max_system_attention    |-> max_system_attention,
      verification_results    |-> verification_results,
      raised                  |-> raised ]

\* a call starts with no exception pending
Entered(s) == [s EXCEPT !.raised = NoException]

\* np.max of an empty array raises ValueError (line 431)
MaxPromptAttentionRaises(prompt_attention) == Len(prompt_attention) = 0

\* mutant: the window must end before the vector's last weight
WindowInRange_Strict(start_idx, end_idx, attention_np) ==
    start_idx < end_idx /\ end_idx < Len(attention_np)

\* the guard of the scoring window (line 451)
WindowInRange(start_idx, end_idx, attention_np) ==
    start_idx < end_idx /\ end_idx <= Len(attention_np)

\* mutant: the running maximum is overwritten with the latest window's
RaiseMaxSystemAttention_Overwrites(s, current_max) ==
    [s EXCEPT !.max_system_attention = current_max]

\* the update of the running maximum (lines 478-480)
RaiseMaxSystemAttention(s, current_max) ==
    IF current_max > s.max_system_attention
    THEN [s EXCEPT !.max_system_attention = current_max]
    ELSE s

\* mutant: the maximum over the whole prompt is scored, not the window's
_update_max_system_attention_WholePrompt(s, position) ==
    IF ~CacheHas(s.attention_cache, position) THEN s
    ELSE
      LET attention_np == CacheGet(s.attention_cache, position)
          prompt_attention == PySlice(attention_np, 0, s.context_length)
      IN IF MaxPromptAttentionRaises(prompt_attention)
         THEN [s EXCEPT !.raised = ValueError]
         ELSE RaiseMaxSystemAttention(s, ArrayMax(prompt_attention))

\* _update_max_system_attention (lines 415-482)
_update_max_system_attention(s, position) ==
    IF ~CacheHas(s.attention_cache, position) THEN s
    ELSE
      LET attention_np == CacheGet(s.attention_cache, position)
          prompt_attention == PySlice(attention_np, 0, s.context_length)
          start_idx == StartIdx
          end_idx == s.system_prompt_length
      IN IF MaxPromptAttentionRaises(prompt_attention)
         THEN [s EXCEPT !.raised = ValueError]
         ELSE IF WindowInRange(start_idx, end_idx, attention_np)
              THEN LET current_max ==
                           ArrayMax(PySlice(attention_np, start_idx, end_idx))
                   IN RaiseMaxSystemAttention(s, current_max)
              ELSE s

\* the loop over self.attention_cache.keys() (lines 180-182), from item i on;
\* an exception ends it
RECURSIVE ScanAttentionCache(_, _)
ScanAttentionCache(s, i) ==
    IF i > Len(s.attention_cache) THEN s
    ELSE LET position == s.attention_cache[i].position
             s1 == IF position >= s.context_length
                   THEN _update_max_system_attention(s, position)
                   ELSE s
         IN IF s1.raised # NoException THEN s1
            ELSE ScanAttentionCache(s1, i + 1)

\* mutant: the threshold comparison made strict
IsHallucination_Strict(max_attention, threshold) == max_attention < threshold

\* is_hallucination (line 196)
IsHallucination(max_attention, threshold) == max_attention <= threshold

\* mutant: the verdict rule without its check of the digit latch
Verdict_IgnoresLatch(s) ==
    IF IsHallucination(s.max_system_attention, s.max_attention_threshold)
    THEN [final_verdict |-> "HALLUCINATION_DETECTED",
          is_hallucination |-> TRUE, factuality_score |-> 10]
    ELSE [final_verdict |-> "VERIFIED", is_hallucination |-> FALSE,
          factuality_score |-> 90]

\* the verdict rule (lines 189-202)
Verdict(s) ==
    IF ~s.number_sequence_started
    THEN [final_verdict |-> "NO_NUMBER_DETECTED", is_hallucination |-> FALSE,
          factuality_score |-> 50]
    ELSE IF IsHallucination(s.max_system_attention, s.max_attention_threshold)
         THEN [final_verdict |-> "HALLUCINATION_DETECTED",
               is_hallucination |-> TRUE, factuality_score |-> 10]
         ELSE [final_verdict |-> "VERIFIED", is_hallucination |-> FALSE,
               factuality_score |-> 90]

\* VerificationResult(...) (lines 209-223)
NewVerificationResult(s) ==
    [ sequence             |-> Strip(s.current_sequence),
      tokens               |-> [i \in 1..Len(s.sequence_tokens) |->
                                   s.sequence_tokens[i][2]],
      factuality_score     |-> Verdict(s).factuality_score,
      avg_system_attention |-> s.max_system_attention,
      avg_user_attention   |-> 0,
      final_verdict        |-> Verdict(s).final_verdict,
      is_hallucination     |-> Verdict(s).is_hallucination,
      verdict_details      |->
          [ max_system_attention    |-> s.max_system_attention,
            threshold               |-> s.max_attention_threshold,
            number_sequence_started |-> s.number_sequence_started ] ]

\* mutant: the result replaces the list instead of being appended to it
AppendResult_Replaces(results, result) == << result >>

\* self.verification_results.append(result) (line 225)
AppendResult(results, result) == Append(results, result)

\* _record_sequence_result (lines 169-231)
_record_sequence_result(s) ==
    LET scanned == IF s.number_sequence_started
                   THEN ScanAttentionCache(s, 1)
                   ELSE s
    IN IF scanned.raised # NoException THEN scanned
       ELSE [scanned EXCEPT !.verification_results =
                AppendResult(@, NewVerificationResult(scanned))]

\* the reset of the sequence tracking state (lines 165-167, 248-250)
ResetCandidate(s) ==
    [s EXCEPT !.current_sequence = << >>,
              !.sequence_start_pos = -1,
              !.sequence_tokens = << >>]

\* effective_length >= self.min_sequence_length (line 160)
TrackedLongEnough(s) ==
    EffectiveLength(s.current_sequence) >= s.min_sequence_length

\* the branch of a non sequence-char token (lines 156-167)
TerminateCandidate(s) ==
    IF s.current_sequence # << >> /\ s.sequence_start_pos # -1
    THEN LET s1 == IF TrackedLongEnough(s)
                   THEN _record_sequence_result(s)
                   ELSE s
         IN IF s1.raised # NoException THEN s1 ELSE ResetCandidate(s1)
    ELSE s

\* the branch of a sequence-char token (lines 148-155)
ExtendCandidate(s, token, position) ==
    IF s.sequence_start_pos = -1
    THEN [s EXCEPT !.sequence_start_pos = s.generated_text_len - Len(token),
                   !.current_sequence = Upper(token),
                   !.sequence_tokens = << <<position, token>> >>]
    ELSE [s EXCEPT !.current_sequence = @ \o Upper(token),
                   !.sequence_tokens = Append(@, <<position, token>>)]

\* mutant: the latch follows the latest token
LatchDigit_FollowsToken(s, token) ==
    [s EXCEPT !.number_sequence_started = ContainsDigit(token)]

\* the digit latch (lines 137-141)
LatchDigit(s, token) ==
    IF ContainsDigit(token) /\ ~s.number_sequence_started
    THEN [s EXCEPT !.number_sequence_started = TRUE]
    ELSE s

\* mutant: one generated position fewer is ignored
IsIgnoredPosition_OneFewer(s, position) ==
    position < s.context_length + IgnoredPositions - 1

\* mutant: no generated position is ignored
IsIgnoredPosition_Never(s, position) == position < s.context_length

\* position < self.context_length + 5 (line 133)
IsIgnoredPosition(s, position) == position < s.context_length + IgnoredPositions

\* mutant: the digit latch is updated behind the completion evaluation
_track_sequence_LatchLast(s, token, position) ==
    IF IsIgnoredPosition(s, position) THEN s
    ELSE LET s1 == IF IsSequenceChar(token)
                   THEN ExtendCandidate(s, token, position)
                   ELSE TerminateCandidate(s)
         IN LatchDigit(s1, token)

\* _track_sequence (lines 130-167)
_track_sequence(s, token, position) ==
    IF IsIgnoredPosition(s, position) THEN s
    ELSE LET s1 == LatchDigit(s, token)
         IN IF IsSequenceChar(token)
            THEN ExtendCandidate(s1, token, position)
            ELSE TerminateCandidate(s1)

\* __call__ (lines 108-128); n is input_ids.shape[1], token the decoded last
\* token of input_ids
__call__(s, n, token) ==
    LET s1 == [s EXCEPT !.generation_step = @ + 1]
    IN IF n > s1.context_length
       THEN _track_sequence(
                [s1 EXCEPT !.generated_text_len = @ + Len(token)],
                token, n - 1)
       ELSE s1

\* mutant: the final length check made strict
FinalLongEnough_Strict(s) ==
    EffectiveLength(s.current_sequence) > s.min_sequence_length

\* effective_length >= self.min_sequence_length (line 239)
FinalLongEnough(s) ==
    EffectiveLength(s.current_sequence) >= s.min_sequence_length

\* mutant: finalize_sequences without the reset of the tracking state
finalize_sequences_KeepsCandidate(s) ==
    IF s.current_sequence # << >> /\ s.sequence_start_pos # -1
    THEN IF FinalLongEnough(s) THEN _record_sequence_result(s) ELSE s
    ELSE s

\* finalize_sequences (lines 233-250)
finalize_sequences(s) ==
    IF s.current_sequence # << >> /\ s.sequence_start_pos # -1
    THEN LET s1 == IF FinalLongEnough(s)
                   THEN _record_sequence_result(s)
                   ELSE s
         IN IF s1.raised # NoException THEN s1
            ELSE [s1 EXCEPT !.current_sequence = << >>,
                            !.sequence_start_pos = -1,
                            !.sequence_tokens = << >>]
    ELSE s

\* update_attention_cache (lines 488-490)
update_attention_cache(s, position, attention_weights) ==
    [s EXCEPT !.attention_cache = CachePut(@, position, attention_weights)]

\* mutant: a cached vector becomes a row as it is
MatrixRow_AsCached(s, pos) ==
    IF CacheHas(s.attention_cache, pos)
    THEN CacheGet(s.attention_cache, pos)
    ELSE [k \in 1..(pos + 1) |-> 0]

\* the row of position pos (lines 510-531): the cached weights padded with
\* zeros or cut to length pos + 1, zeros if the position is missing
MatrixRow(s, pos) ==
    IF CacheHas(s.attention_cache, pos)
    THEN LET weights == CacheGet(s.attention_cache, pos)
         IN IF Len(weights) < pos + 1
            THEN weights \o [k \in 1..(pos + 1 - Len(weights)) |-> 0]
            ELSE IF Len(weights) > pos + 1
                 THEN PySlice(weights, 0, pos + 1)
                 ELSE weights
    ELSE [k \in 1..(pos + 1) |-> 0]

\* start_position (lines 498-502)
MatrixStartPosition(s) ==
    LET keys == CacheKeys(s.attention_cache)
        min_position == CHOOSE p \in keys : \A q \in keys : p <= q
    IN Max2(s.context_length, min_position)

\* get_full_attention_matrix (lines 492-548)
get_full_attention_matrix(s) ==
    IF s.attention_cache = << >> THEN << >>
    ELSE
      LET keys == CacheKeys(s.attention_cache)
          max_position == CHOOSE p \in keys : \A q \in keys : q <= p
          start_position == MatrixStartPosition(s)
      IN IF max_position < start_position THEN << >>
         ELSE [i \in 1..(max_position - start_position + 1) |->
                  MatrixRow(s, start_position + i - 1)]

\* reset_buffers (lines 92-106): generated_text, generated_tokens,
\* generation_step, attention_cache, the tracker state, the latch and the
\* running maximum are assigned; verification_results is not
reset_buffers(s) ==
    [s EXCEPT !.generated_text_len = 0,
              !.generation_step = 0,
              !.attention_cache = << >>,
              !.current_sequence = << >>,
              !.sequence_start_pos = -1,
              !.sequence_tokens = << >>,
              !.number_sequence_started = FALSE,
              !.max_system_attention = 0]

-----------------------------------------------------------------------------
(* The capture adapters.  attention_weights is the list of the layers'
   attention of one forward pass, each reduced to the head-averaged row of
   its last query position. *)

\* the layer list[index] of Python reads, index in range
PyIndex(list, index) == IF index >= 0 THEN index ELSE Len(list) + index

\* layer_index names a layer of the list (lines 574 and 576, 884 and 887)
LayerInRange(layer_index, total_layers) ==
    \/ layer_index >= 0 /\ layer_index < total_layers
    \/ layer_index < 0 /\ -layer_index <= total_layers

\* actual_layer, the layer run_verification announces when the model is
\* loaded (lines 684-698)
actual_layer(layer_index, total_layers) ==
    IF layer_index >= 0
    THEN IF layer_index < total_layers
         THEN layer_index
         ELSE total_layers - 1
    ELSE IF -layer_index <= total_layers
         THEN total_layers + layer_index
         ELSE 0

\* the layer the forward hook reads (lines 571-584)
HookLayer(layer_index, attention_weights) ==
    IF layer_index >= 0 /\ layer_index < Len(attention_weights)
    THEN PyIndex(attention_weights, layer_index)
    ELSE IF layer_index < 0 /\ -layer_index <= Len(attention_weights)
    THEN PyIndex(attention_weights, layer_index)
    ELSE PyIndex(attention_weights, -1)

\* the hook prints that the index is out of range (lines 581-582)
HookWarns(layer_index, attention_weights, verbose) ==
    ~LayerInRange(layer_index, Len(attention_weights)) /\ verbose

\* the hook of capture_attention_hook (lines 553-609): the row of the
\* selected layer is cached at current_pos = its length - 1
capture_attention_hook(s, attention_weights) ==
    LET avg_attention ==
            attention_weights[HookLayer(s.attention_layer_index,
                                        attention_weights) + 1]
        current_pos == Len(avg_attention) - 1
    IN update_attention_cache(s, current_pos, avg_attention)

\* the layer the post-hoc extraction reads of one step (lines 881-894)
PostHocLayer(layer_index, step_attentions) ==
    LET total_layers == Len(step_attentions)
    IN IF layer_index >= 0 /\ layer_index < total_layers
       THEN PyIndex(step_attentions, layer_index)
       ELSE IF layer_index < 0 /\ -layer_index <= total_layers
       THEN PyIndex(step_attentions, layer_index)
       ELSE PyIndex(step_attentions, -1)

\* the extraction prints that the index is out of range (lines 891-892)
PostHocWarns(layer_index, step_attentions, verbose) ==
    ~LayerInRange(layer_index, Len(step_attentions)) /\ verbose

\* the post-hoc extraction of run_verification (lines 879-921) from step
\* step_idx on: the row of the selected layer of each step is cached at
\* seq_pos = context_length + step_idx
RECURSIVE ExtractAttentions(_, _, _)
ExtractAttentions(s, attentions, step_idx) ==
    IF step_idx >= Len(attentions) THEN s
    ELSE LET step_attentions == attentions[step_idx + 1]
             avg_attention ==
                 step_attentions[PostHocLayer(s.attention_layer_index,
                                              step_attentions) + 1]
             seq_pos == s.context_length + step_idx
         IN ExtractAttentions(
                update_attention_cache(s, seq_pos, avg_attention),
                attentions, step_idx + 1)

-----------------------------------------------------------------------------
(* retry (error_handling.py, lines 7-24).  A call of the wrapper is a
   record: max_retries, delay and backoff as configured, first_success the
   attempt at which func first returns (0: it raises an Exception at every
   attempt), the locals retries and current_delay, call_count the calls of
   func so far, and outcome, "running" until the wrapper has returned or
   raised. *)

NoRetryCall == [outcome |-> "none"]

\* the wrapper is entered (lines 11-12)
wrapper_entered(max_retries, first_success) ==
    [ max_retries   |-> max_retries,
      backoff       |-> DefaultBackoff,
      first_success |-> first_success,
      retries       |-> 0,
      current_delay |-> DefaultDelay,
      call_count    |-> 0,
      slept         |-> 0,
      outcome       |-> "running" ]

\* mutant: the exception propagates one attempt early
IsLastAttempt_Early(w) == w.retries >= w.max_retries - 2

\* retries == max_retries - 1 (line 18)
IsLastAttempt(w) == w.retries = w.max_retries - 1

\* one turn of the while loop (lines 13-22): func is called; its value is
\* returned, or its exception is raised again at the last attempt, or the
\* wrapper sleeps and goes round
wrapper_attempt(w) ==
    LET called == [w EXCEPT !.call_count = @ + 1]
    IN IF called.call_count = w.first_success
       THEN [called EXCEPT !.outcome = "returned"]
       ELSE IF IsLastAttempt(w)
       THEN [called EXCEPT !.outcome = "raised"]
       ELSE [called EXCEPT !.slept = @ + w.current_delay,
                           !.current_delay = @ * w.backoff,
                           !.retries = @ + 1]

\* the while condition fails: the wrapper falls off its end (line 13)
wrapper_exhausted(w) == [w EXCEPT !.outcome = "returned None"]

-----------------------------------------------------------------------------
(* Inputs *)

\* decoded tokens the host model generates
WordToken == <<"a", "b", "c", "d", "e", "f">>
NumberToken == <<" ", "1", "2", "-", "3", "4", "5">>
DigitToken == <<"7">>
StopToken == <<".">>
DigitStopToken == <<"1", ".">>
EmptyToken == << >>

Tokens == { WordToken, NumberToken, DigitToken, StopToken, DigitStopToken,
            EmptyToken }

\* tokens the host generates at the ignored positions: one with a digit and
\* one without
EarlyTokens == { DigitToken, StopToken }

\* the tokens that may end an input of n tokens
HostTokens(n) ==
    IF n > context_length + MaxNewTokens THEN {}
    ELSE IF n - 1 < context_length + IgnoredPositions THEN EarlyTokens
    ELSE Tokens

\* attention weights, in hundredths
BaseAttention == 1
LowAttention == 5
ThresholdAttention == DefaultThreshold
HighAttention == 35

\* a vector of the given length: the weight first at index 0, inside the
\* skipped margin, the weight peak at index 5, the first of the scoring
\* window, and the base weight elsewhere
AttentionVector(length, first, peak) ==
    [j \in 1..length |->
        IF j = 1 THEN first
        ELSE IF j = StartIdx + 1 THEN peak ELSE BaseAttention]

\* vectors an adapter hands over for position p: of the expected length
\* p + 1 with the window's peak above the threshold, or at the threshold
\* under a higher weight in the margin; shorter than the system prompt;
\* empty
AttentionVectors(p) ==
    { AttentionVector(p + 1, BaseAttention, HighAttention),
      AttentionVector(p + 1, HighAttention, ThresholdAttention),
      AttentionVector(StartIdx + 1, BaseAttention, HighAttention),
      << >> }

\* positions the adapters write to
CachePositions ==
    context_length..(context_length + MaxCachedPositions - 1)

\* (context_length, system_prompt_length) of the episodes explored
Layouts == { <<8, 7>>, <<6, 7>>, <<0, 0>> }

-----------------------------------------------------------------------------
(* The state machine *)

\* __init__ (lines 58-90); the layout is stored as given
Constructed(layout) ==
    /\ context_length = layout[1]
    /\ system_prompt_length = layout[2]
    /\ input_len = layout[1]
    /\ max_attention_threshold = DefaultThreshold
    /\ min_sequence_length = DefaultMinSequenceLength
    /\ generated_text_len = 0
    /\ generation_step = 0
    /\ attention_cache = << >>
    /\ current_sequence = << >>
    /\ sequence_start_pos = -1
    /\ sequence_tokens = << >>
    /\ number_sequence_started = FALSE
    /\ max_system_attention = 0
    /\ verification_results = << >>
    /\ last_token = NoToken
    /\ raised = NoException

\* the default layer index, no forward pass captured yet, no wrapped
\* function called, and a host that calls the verifier as it likes
NothingCaptured ==
    /\ attention_layer_index = DefaultLayerIndex
    /\ num_layers = 1
    /\ selected_layers = {}
    /\ warnings = {}
    /\ retry_call = NoRetryCall
    /\ pc = AnyHost

\* an episode of free generation under any of the layouts
Init ==
    /\ \E layout \in Layouts :
          Constructed(layout) /\ first_position = layout[1]
    /\ NothingCaptured

\* the fields of the object after a call
ObjectBecomes(s) ==
    /\ generated_text_len' = s.generated_text_len
    /\ generation_step' = s.generation_step
    /\ attention_cache' = s.attention_cache
    /\ current_sequence' = s.current_sequence
    /\ sequence_start_pos' = s.sequence_start_pos
    /\ sequence_tokens' = s.sequence_tokens
    /\ number_sequence_started' = s.number_sequence_started
    /\ max_system_attention' = s.max_system_attention
    /\ verification_results' = s.verification_results
    /\ raised' = s.raised
    /\ UNCHANGED << config_vars, first_position, retry_call >>

\* the object after a call that leaves its caller where it is
Becomes(s) == ObjectBecomes(s) /\ UNCHANGED pc

\* one step of the decoding loop: the logits processor is called with the
\* sequence so far, whose last token is token, and the host appends the next
Call(token) ==
    /\ Becomes(__call__(Entered(self), input_len, token))
    /\ input_len' = input_len + 1
    /\ last_token' = IF input_len > context_length THEN token ELSE last_token
    /\ UNCHANGED capture_vars

\* a capture adapter stores the attention of one position
CacheWrite(position, attention_weights) ==
    /\ Becomes(update_attention_cache(Entered(self), position,
                                      attention_weights))
    /\ UNCHANGED << input_len, last_token, first_position, capture_vars >>

\* finalize_sequences()
Finalize ==
    /\ Becomes(finalize_sequences(Entered(self)))
    /\ UNCHANGED << input_len, last_token, first_position, capture_vars >>

\* get_full_attention_matrix(): the object is only read, the caller gets
\* get_full_attention_matrix(self)
MatrixRead ==
    /\ Becomes(Entered(self))
    /\ UNCHANGED << input_len, last_token, first_position, capture_vars >>

Next ==
    \/ \E token \in HostTokens(input_len) : Call(token)
    \/ \E position \in CachePositions :
          \E attention_weights \in AttentionVectors(position) :
              CacheWrite(position, attention_weights)
    \/ Finalize
    \/ MatrixRead

Spec == Init /\ [][Next]_vars

-----------------------------------------------------------------------------
(* A scripted episode: the host generates filler tokens up to first_position
   and then the identifier "AB-12345 " one character a token, the adapters
   cache well-formed vectors while it generates, and finalize_sequences is
   called when generation has ended *)

ScriptedTokens ==
    << <<"A">>, <<"B">>, <<"-">>, <<"1">>, <<"2">>, <<"3">>, <<"4">>,
       <<"5">>, <<" ">> >>

\* the token that ends an input of n tokens
ScriptedHostTokens(n) ==
    IF n - 1 < first_position THEN EarlyTokens
    ELSE IF n - first_position <= Len(ScriptedTokens)
    THEN { ScriptedTokens[n - first_position] }
    ELSE {}

\* the host has generated the whole script
ScriptGenerated == input_len = first_position + Len(ScriptedTokens) + 1

\* vectors of the expected length p + 1 whose window peaks at 0.05 or at 0.35
ScriptedAttentionVectors(p) ==
    { AttentionVector(p + 1, BaseAttention, LowAttention),
      AttentionVector(p + 1, BaseAttention, HighAttention) }

\* the script starts at context_length or up to five positions later, under
\* a valid layout with a scoring window
ScriptedInit ==
    /\ \E layout \in Layouts :
          /\ 0 <= layout[2] /\ layout[2] <= layout[1]
          /\ StartIdx < layout[2]
          /\ Constructed(layout)
          /\ first_position \in layout[1]..(layout[1] + IgnoredPositions)
    /\ NothingCaptured

ScriptedCall ==
    \E token \in ScriptedHostTokens(input_len) : Call(token)

ScriptedCacheWrite ==
    /\ ~ScriptGenerated
    /\ \E position \in CachePositions :
          \E attention_weights \in ScriptedAttentionVectors(position) :
              CacheWrite(position, attention_weights)

ScriptedFinalize == ScriptGenerated /\ Finalize

ScriptedNext ==
    \/ ScriptedCall
    \/ ScriptedCacheWrite
    \/ ScriptedFinalize
    \/ MatrixRead

ScriptedSpec == ScriptedInit /\ [][ScriptedNext]_vars

-----------------------------------------------------------------------------
(* Several episodes on one instance: the host calls reset_buffers() and
   generates again from the same prompt *)

\* tokens and vectors of these episodes
EpisodeTokens == { WordToken, StopToken, DigitStopToken }

EpisodeHostTokens(n) == HostTokens(n) \cap (EarlyTokens \cup EpisodeTokens)

EpisodeAttentionVectors(p) ==
    { AttentionVector(p + 1, BaseAttention, HighAttention),
      AttentionVector(p + 1, HighAttention, ThresholdAttention) }

\* reset_buffers(), called while the instance holds at most MaxKeptResults
\* results; the host starts over at the end of the prompt
Reset ==
    /\ Len(verification_results) <= MaxKeptResults
    /\ Becomes(reset_buffers(Entered(self)))
    /\ input_len' = context_length
    /\ last_token' = NoToken
    /\ UNCHANGED capture_vars

EpisodesNext ==
    \/ \E token \in EpisodeHostTokens(input_len) : Call(token)
    \/ \E position \in CachePositions :
          \E attention_weights \in EpisodeAttentionVectors(position) :
              CacheWrite(position, attention_weights)
    \/ Finalize
    \/ MatrixRead
    \/ Reset

EpisodesSpec == Init /\ [][EpisodesNext]_vars

-----------------------------------------------------------------------------
(* An episode with the capture adapters: the forward hook runs in every
   forward pass ahead of the logits processor, and when generation has ended
   the attentions that generate returned are extracted *)

\* configured layer indexes: every layer from either end, and out of range
\* on both sides
LayerIndexes == (-(MaxLayers + 2))..(MaxLayers + 1)

\* the attention row of layer k over length positions; the weight at index 5
\* tells the layers apart
LayerAttention(k, length) == AttentionVector(length, BaseAttention, k + 2)

\* the layers' rows of a forward pass over length positions
ForwardAttentions(length) ==
    [k \in 1..num_layers |-> LayerAttention(k - 1, length)]

\* generation is over after MaxForwardPasses forward passes
GenerationEnded == input_len >= context_length + MaxForwardPasses

CaptureInit ==
    /\ \E layout \in Layouts :
          /\ 0 <= layout[2] /\ layout[2] <= layout[1]
          /\ StartIdx < layout[2]
          /\ Constructed(layout)
          /\ first_position = layout[1]
    /\ attention_layer_index \in LayerIndexes
    /\ num_layers \in 1..MaxLayers
    /\ selected_layers = {}
    /\ warnings = {}
    /\ retry_call = NoRetryCall
    /\ pc = AnyHost

\* the forward hook fires in the forward pass over the input_len tokens
HookCapture ==
    LET attention_weights == ForwardAttentions(input_len)
    IN /\ ~GenerationEnded
       /\ ~CacheHas(attention_cache, input_len - 1)
       /\ Becomes(capture_attention_hook(Entered(self), attention_weights))
       /\ selected_layers' = selected_layers \cup
              { [path |-> "hook",
                 layer |-> HookLayer(attention_layer_index,
                                     attention_weights)] }
       /\ warnings' = warnings \cup
              IF HookWarns(attention_layer_index, attention_weights,
                           HookVerbose)
              THEN { "hook" } ELSE {}
       /\ UNCHANGED << input_len, last_token >>

\* the logits processor is called at the end of the forward pass
CaptureCall ==
    /\ ~GenerationEnded
    /\ \E token \in HostTokens(input_len) : Call(token)

\* the extraction after generate: one step a forward pass; the rows are
\* over the tokens of the pass or over one more, as the host library
\* shapes them
PostHocExtraction ==
    \E extra \in 0..1 :
        LET attentions ==
                [step \in 1..(input_len - context_length) |->
                    ForwardAttentions(context_length + step - 1 + extra)]
        IN /\ GenerationEnded
           /\ \A r \in selected_layers : r.path # "post_hoc"
           /\ Becomes(ExtractAttentions(Entered(self), attentions, 0))
           /\ selected_layers' = selected_layers \cup
                  { [path |-> "post_hoc",
                     layer |-> PostHocLayer(attention_layer_index,
                                            attentions[1])] }
           /\ warnings' = warnings \cup
                  IF PostHocWarns(attention_layer_index, attentions[1],
                                  VerifierVerbose)
                  THEN { "post_hoc" } ELSE {}
           /\ UNCHANGED << input_len, last_token >>

CaptureNext ==
    \/ HookCapture
    \/ CaptureCall
    \/ Finalize
    \/ PostHocExtraction
    \/ MatrixRead

CaptureSpec == CaptureInit /\ [][CaptureNext]_vars

-----------------------------------------------------------------------------
(* The read path: vectors of any length are cached at the last prompt
   position and the first generated ones, in any order, and the full
   attention matrix is read *)

MatrixPositions ==
    Max2(0, context_length - 1)..(context_length + MaxMatrixPositions - 1)

\* vectors for position p: of the expected length p + 1, one shorter, one
\* longer, and empty
MatrixVectors(p) ==
    { AttentionVector(p + 1, BaseAttention, HighAttention),
      AttentionVector(p, HighAttention, LowAttention),
      AttentionVector(p + 2, LowAttention, BaseAttention),
      << >> }

MatrixNext ==
    \/ \E position \in MatrixPositions :
          \E attention_weights \in MatrixVectors(position) :
              CacheWrite(position, attention_weights)
    \/ MatrixRead

MatrixSpec == Init /\ [][MatrixNext]_vars

-----------------------------------------------------------------------------
(* An episode whose adapters deliver the rows one weight short, of length p
   for position p, or the same rows with a zero appended; the system prompt
   may be the whole prompt *)

PaddingLayouts == { <<8, 7>>, <<7, 7>>, <<0, 0>> }

\* v with one trailing zero
ZeroPadded(v) == Append(v, 0)

\* rows of length p, and the same rows with a trailing zero
PaddingVectors(p) ==
    LET short == { AttentionVector(p, BaseAttention, HighAttention),
                   AttentionVector(p, HighAttention, ThresholdAttention) }
    IN short \cup { ZeroPadded(v) : v \in short }

\* positions these adapters write to: the first two generated ones
PaddingPositions == { context_length, context_length + 1 }

PaddingInit ==
    /\ \E layout \in PaddingLayouts :
          Constructed(layout) /\ first_position = layout[1]
    /\ NothingCaptured

PaddingNext ==
    \/ \E token \in EpisodeHostTokens(input_len) : Call(token)
    \/ \E position \in PaddingPositions :
          \E attention_weights \in PaddingVectors(position) :
              CacheWrite(position, attention_weights)
    \/ Finalize
    \/ MatrixRead

PaddingSpec == PaddingInit /\ [][PaddingNext]_vars

-----------------------------------------------------------------------------
(* An episode long enough for three candidates: words, terminators with and
   without a digit, and a position whose cached vector is rewritten *)

\* the tokens that may end an input of n tokens
VerdictHostTokens(n) ==
    IF n - 1 < context_length + IgnoredPositions THEN { StopToken }
    ELSE IF n - 1 < context_length + IgnoredPositions + MaxTrackedTokens
    THEN EpisodeTokens
    ELSE {}

VerdictsNext ==
    \/ \E token \in VerdictHostTokens(input_len) : Call(token)
    \/ \E position \in CachePositions :
          \E attention_weights \in EpisodeAttentionVectors(position) :
              CacheWrite(position, attention_weights)
    \/ Finalize
    \/ MatrixRead

VerdictsSpec == Init /\ [][VerdictsNext]_vars

-----------------------------------------------------------------------------
(* The generate and collect block of run_verification (lines 852-971), one
   layer and the default layer index: the forward hook and the logits
   processor run while generate does; the finally clause calls
   finalize_sequences, also when generate raised; then the attentions that
   generate returned are extracted, and the results and the attention matrix
   are read *)

\* the tokens that may end an input of n tokens
RunHostTokens(n) == HostTokens(n) \cap ({ StopToken } \cup EpisodeTokens)

\* the layers' rows of a forward pass over length positions: one layer, its
\* window peaking at 0.05, or at 0.35 in the passes over the tokens at
\* tracked positions
RunAttentions(length) ==
    { << AttentionVector(length, BaseAttention, peak) >> :
        peak \in IF length - 1 > context_length + IgnoredPositions
                 THEN { LowAttention, HighAttention }
                 ELSE { LowAttention } }

RunInit ==
    /\ \E layout \in Layouts :
          /\ 0 <= layout[2] /\ layout[2] <= layout[1]
          /\ StartIdx < layout[2]
          /\ Constructed(layout)
          /\ first_position = layout[1]
    /\ attention_layer_index = DefaultLayerIndex
    /\ num_layers = 1
    /\ selected_layers = {}
    /\ warnings = {}
    /\ retry_call = NoRetryCall
    /\ pc = "generate"

\* the forward hook fires in the forward pass over the input_len tokens
RunHook ==
    /\ pc = "generate"
    /\ raised = NoException
    /\ ~CacheHas(attention_cache, input_len - 1)
    /\ \E attention_weights \in RunAttentions(input_len) :
          /\ Becomes(capture_attention_hook(Entered(self), attention_weights))
          /\ selected_layers' = selected_layers \cup
                 { [path |-> "hook",
                    layer |-> HookLayer(attention_layer_index,
                                        attention_weights)] }
    /\ UNCHANGED << input_len, last_token, warnings >>

\* the logits processor is called at the end of the forward pass, behind
\* the hook
RunCall ==
    /\ pc = "generate"
    /\ raised = NoException
    /\ CacheHas(attention_cache, input_len - 1)
    /\ \E token \in RunHostTokens(input_len) : Call(token)

\* mutant: the finally clause is skipped
AfterGenerate_SkipsFinally(generate_raised) ==
    IF generate_raised THEN "propagated" ELSE "extract"

\* where control goes when generate is left (lines 862-867): into the
\* finally clause, with the exception of generate pending or not
AfterGenerate(generate_raised) ==
    IF generate_raised THEN "finally, exception pending" ELSE "finally"

\* generate returns after some forward pass, or raises: an exception of the
\* logits processor or one of the host
GenerateEnds ==
    /\ pc = "generate"
    /\ \E generate_raised \in BOOLEAN :
          /\ raised # NoException => generate_raised
          /\ ~generate_raised => input_len > context_length
          /\ pc' = AfterGenerate(generate_raised)
    /\ UNCHANGED << verifier_vars, retry_call >>

\* the finally clause (lines 862-867): the hooks are removed and
\* finalize_sequences is called; the pending exception, or the one
\* finalize_sequences raises, leaves the block
RunFinally ==
    LET finalized == finalize_sequences(Entered(self))
    IN /\ pc \in { "finally", "finally, exception pending" }
       /\ ObjectBecomes(finalized)
       /\ pc' = IF pc = "finally" /\ finalized.raised = NoException
                THEN "extract"
                ELSE "propagated"
       /\ UNCHANGED << input_len, last_token, capture_vars >>

\* the extraction of outputs.attentions (lines 871-924), a step a forward
\* pass
RunExtraction ==
    /\ pc = "extract"
    /\ \E extra \in 0..1 : \E peak \in { LowAttention, HighAttention } :
          LET attentions ==
                  [step \in 1..(input_len - context_length) |->
                      << AttentionVector(context_length + step - 1 + extra,
                                         BaseAttention, peak) >>]
          IN /\ ObjectBecomes(ExtractAttentions(Entered(self), attentions, 0))
             /\ selected_layers' = selected_layers \cup
                    { [path |-> "post_hoc",
                       layer |-> PostHocLayer(attention_layer_index,
                                              attentions[1])] }
    /\ pc' = "collect"
    /\ UNCHANGED << input_len, last_token, warnings >>

\* verifier.verification_results and get_full_attention_matrix() are read
\* into the result (lines 967-971)
RunCollect ==
    /\ pc = "collect"
    /\ ObjectBecomes(Entered(self))
    /\ pc' = "done"
    /\ UNCHANGED << input_len, last_token, capture_vars >>

RunNext ==
    \/ RunHook
    \/ RunCall
    \/ GenerateEnds
    \/ RunFinally
    \/ RunExtraction
    \/ RunCollect

RunSpec == RunInit /\ [][RunNext]_vars

-----------------------------------------------------------------------------
(* Episodes with a system prompt of at most five tokens, none, three or
   five, in a prompt of eight *)

WindowlessLayouts == { <<8, 0>>, <<8, 3>>, <<8, 5>> }

WindowlessInit ==
    /\ \E layout \in WindowlessLayouts :
          Constructed(layout) /\ first_position = layout[1]
    /\ NothingCaptured

WindowlessSpec == WindowlessInit /\ [][Next]_vars

-----------------------------------------------------------------------------
(* A call of a function wrapped with retry *)

\* the verifier takes no part: it stays as constructed
RetryInit ==
    /\ Constructed(<<8, 7>>)
    /\ first_position = context_length
    /\ attention_layer_index = DefaultLayerIndex
    /\ num_layers = 1
    /\ selected_layers = {}
    /\ warnings = {}
    /\ \E max_retries \in 0..MaxRetries :
          \E first_success \in 0..(MaxRetries + 1) :
              retry_call = wrapper_entered(max_retries, first_success)
    /\ pc = AnyHost

\* the loop body runs once
Attempt ==
    /\ retry_call.outcome = "running"
    /\ retry_call.retries < retry_call.max_retries
    /\ retry_call' = wrapper_attempt(retry_call)
    /\ UNCHANGED << verifier_vars, pc >>

\* the loop is left without a return
Exhausted ==
    /\ retry_call.outcome = "running"
    /\ ~(retry_call.retries < retry_call.max_retries)
    /\ retry_call' = wrapper_exhausted(retry_call)
    /\ UNCHANGED << verifier_vars, pc >>

RetryNext == Attempt \/ Exhausted

RetrySpec == RetryInit /\ [][RetryNext]_vars

-----------------------------------------------------------------------------
(* Shared vocabulary of the properties *)

\* position of the token the latest __call__ decoded
LastPosition == input_len - 2

\* the latest __call__ decoded a token at a tracked position
LastTokenTracked ==
    /\ last_token # NoToken
    /\ LastPosition >= context_length + IgnoredPositions

\* a candidate sequence is being built
CandidatePending == current_sequence # << >>

\* the layout the specification asks for
LayoutValid ==
    0 <= system_prompt_length /\ system_prompt_length <= context_length

\* a valid layout whose scoring window [5, system_prompt_length) is not empty
ScoringLayout == LayoutValid /\ StartIdx < system_prompt_length

\* this step appended exactly one result
AppendedOne ==
    /\ Len(verification_results') = Len(verification_results) + 1
    /\ SubSeq(verification_results', 1, Len(verification_results))
          = verification_results

\* the result this step appended
Appended == verification_results'[Len(verification_results')]

HasForm(result, verdict, hallucination, score) ==
    /\ result.final_verdict = verdict
    /\ result.is_hallucination = hallucination
    /\ result.factuality_score = score

IsNoNumber(result) == HasForm(result, "NO_NUMBER_DETECTED", FALSE, 50)

IsHallucinationDetected(result) ==
    HasForm(result, "HALLUCINATION_DETECTED", TRUE, 10)

IsVerified(result) == HasForm(result, "VERIFIED", FALSE, 90)

\* the weights cached for generated positions at the indices of the window
\* [5, system_prompt_length) that the vector has
WindowWeights(cache) ==
    UNION { { cache[i].weights[j + 1] :
                j \in { k \in StartIdx..(system_prompt_length - 1) :
                          k < Len(cache[i].weights) } } :
            i \in { k \in 1..Len(cache) : cache[k].position >= context_length } }

-----------------------------------------------------------------------------
(* C1 *)

\* C1: a result appended while the digit latch is false is NO_NUMBER_DETECTED,
\* not a hallucination, with score 0.5, whatever the cache holds; the latch
\* is only ever set by a call whose token contains a digit, so as long as no
\* digit token was tracked every result of the episode has this form.
C1_NoNumberWithoutLatch ==
    /\ [][(AppendedOne /\ ~number_sequence_started') => IsNoNumber(Appended)]_vars
    /\ [][(number_sequence_started' /\ ~number_sequence_started)
            => (input_len' = input_len + 1 /\ ContainsDigit(last_token'))]_vars
    /\ [](~number_sequence_started =>
            \A i \in 1..Len(verification_results) :
                IsNoNumber(verification_results[i]))

\* C1 witness: a NO_NUMBER_DETECTED result was recorded, by a token and by
\* finalize_sequences, with a weight above the threshold cached in the window
\* and digit tokens generated at the ignored positions.
C1_Witness ==
    /\ ScoringLayout
    /\ ~number_sequence_started
    /\ Len(verification_results) = 2
    /\ IsNoNumber(verification_results[2])
    /\ ~CandidatePending
    /\ IsSequenceChar(last_token)
    /\ \E w \in WindowWeights(attention_cache) : w > max_attention_threshold

-----------------------------------------------------------------------------
(* C2 *)

\* C2 as stated: under a valid layout with a scoring window a result appended with the latch set is
\* HALLUCINATION_DETECTED, a hallucination, with score 0.1, whenever every
\* weight cached for a generated position in the window [5,
\* system_prompt_length) is at most the threshold.
C2_AsStated ==
    [][(/\ ScoringLayout
        /\ AppendedOne
        /\ number_sequence_started'
        /\ \A w \in WindowWeights(attention_cache') :
              w <= max_attention_threshold)
       => IsHallucinationDetected(Appended)]_vars

\* C2 amended: the same, provided max_system_attention, the running maximum
\* left by the earlier evaluations of the episode, is at most the threshold
\* too when the evaluation starts.
C2_HallucinationAtOrBelowThreshold ==
    [][(/\ AppendedOne
        /\ number_sequence_started'
        /\ max_system_attention <= max_attention_threshold
        /\ \A w \in WindowWeights(attention_cache') :
              w <= max_attention_threshold)
       => IsHallucinationDetected(Appended)]_vars

\* C2 witness: a hallucination was recorded from a cached window whose
\* maximum equals the threshold.
C2_Witness ==
    /\ ScoringLayout
    /\ verification_results # << >>
    /\ IsHallucinationDetected(verification_results[Len(verification_results)])
    /\ max_system_attention = max_attention_threshold
    /\ max_attention_threshold \in WindowWeights(attention_cache)
    /\ \A w \in WindowWeights(attention_cache) : w <= max_attention_threshold

-----------------------------------------------------------------------------
(* C3 *)

\* C3: under a valid layout with a scoring window a result appended with the latch set is VERIFIED,
\* not a hallucination,
\* with score 0.9, whenever some vector cached for a generated position, of
\* whatever length, has a weight above the threshold at an index of the
\* window [5, system_prompt_length).
C3_VerifiedAboveThreshold ==
    [][(/\ ScoringLayout
        /\ AppendedOne
        /\ number_sequence_started'
        /\ \E w \in WindowWeights(attention_cache') :
              w > max_attention_threshold)
       => IsVerified(Appended)]_vars

-----------------------------------------------------------------------------
(* C4 *)

\* the script was generated and finalize_sequences has been called
ScriptFinalized == ScriptGenerated /\ ~CandidatePending

\* the cached system-region attention maxes at peak
CachedWindowMax(peak) ==
    /\ peak \in WindowWeights(attention_cache)
    /\ \A w \in WindowWeights(attention_cache) : w <= peak

\* one result, HALLUCINATION_DETECTED with score 0.1 when the cache maxes
\* at 0.05 and VERIFIED with score 0.9 when it maxes at 0.35
ScriptScoredOnce ==
    /\ Len(verification_results) = 1
    /\ CachedWindowMax(LowAttention)
          => IsHallucinationDetected(verification_results[1])
    /\ CachedWindowMax(HighAttention)
          => IsVerified(verification_results[1])

\* C4 as stated: the nine tokens fed from position context_length on and
\* then finalize_sequences leave exactly one result, HALLUCINATION_DETECTED
\* with score 0.1 when the cached window maxes at 0.05 under threshold 0.1
\* and VERIFIED with score 0.9 when it maxes at 0.35.
C4_AsStated ==
    (first_position = context_length /\ ScriptFinalized) => ScriptScoredOnce

\* the script's tokens at the positions _track_sequence does not ignore
ScriptTracked ==
    { i \in 1..Len(ScriptedTokens) :
        first_position + i - 1 >= context_length + IgnoredPositions }

\* alphanumeric count of the candidate the script builds
ScriptTrackedLength ==
    Cardinality({ i \in ScriptTracked : IsAlnum(ScriptedTokens[i][1]) })

\* C4 amended: the same when the nine tokens are fed from position
\* context_length + 5 on, behind the five generated positions that
\* _track_sequence ignores, the one result being for the whole identifier.
\* Fed from an earlier position, the tokens at the ignored positions are not
\* part of the candidate: fed from context_length on, the candidate is
\* "345 " with alphanumeric count 3 and no result is appended; in general
\* there is one result as above if the tracked tokens' alphanumeric count
\* is at least min_sequence_length and none otherwise.
C4_ScriptedIdentifier ==
    ScriptFinalized =>
        /\ IF ScriptTrackedLength >= min_sequence_length
           THEN ScriptScoredOnce
           ELSE verification_results = << >>
        /\ first_position = context_length + IgnoredPositions
              => /\ ScriptScoredOnce
                 /\ verification_results[1].sequence
                       = <<"A", "B", "-", "1", "2", "3", "4", "5">>
        /\ first_position = context_length
              => /\ ScriptTrackedLength = 3
                 /\ verification_results = << >>

\* C4 witness: the script fed from context_length + 5 on was finalized with
\* a vector cached whose window maxes at 0.35, and one result is there.
C4_Witness ==
    /\ first_position = context_length + IgnoredPositions
    /\ ScriptFinalized
    /\ CachedWindowMax(HighAttention)
    /\ Len(verification_results) = 1

-----------------------------------------------------------------------------
(* C5 *)

\* tokens that end a candidate and contain no digit
PlainTerminators == { token \in Tokens :
                        ~IsSequenceChar(token) /\ ~ContainsDigit(token) }

\* some tracked position
TrackedPosition == context_length + IgnoredPositions

\* C5: with a candidate in progress, finalize_sequences leaves the verifier
\* exactly as _track_sequence does for a digit-free non-sequence token at a
\* tracked position: the same result appended (or none), the same idle
\* tracker, the same exception; and a candidate whose alphanumeric count
\* reaches min_sequence_length is not dropped by it: a result is appended or
\* the candidate is still there.
C5_FinalizeIsTermination ==
    CandidatePending =>
        LET finalized == finalize_sequences(Entered(self))
        IN /\ \A token \in PlainTerminators :
                finalized = _track_sequence(Entered(self), token,
                                            TrackedPosition)
           /\ EffectiveLength(current_sequence) >= min_sequence_length =>
                \/ /\ Len(finalized.verification_results)
                        = Len(verification_results) + 1
                   /\ finalized.current_sequence = << >>
                \/ finalized.current_sequence = current_sequence

\* C5 witness: finalize_sequences has flushed a candidate that generation
\* left building, long enough and with the latch set, into a result.
C5_Witness ==
    /\ ScoringLayout
    /\ LastTokenTracked
    /\ IsSequenceChar(last_token)
    /\ ~CandidatePending
    /\ number_sequence_started
    /\ max_system_attention > max_attention_threshold
    /\ verification_results # << >>
    /\ LET last == verification_results[Len(verification_results)]
       IN last.tokens[Len(last.tokens)] = last_token

-----------------------------------------------------------------------------
(* C6 *)

\* C6: finalize_sequences called twice in a row leaves the verifier, its
\* results included, as the first call left it, and with no candidate
\* pending one call changes nothing.
C6_FinalizeIdempotent ==
    LET once == finalize_sequences(Entered(self))
        twice == finalize_sequences(Entered(once))
    IN /\ twice = once
       /\ ~CandidatePending => once = Entered(self)

\* C6 witness: a candidate long enough to be scored is pending with the
\* latch set and a vector cached, so that the first finalize_sequences scans
\* the cache and appends a result.
C6_Witness ==
    /\ ScoringLayout
    /\ CandidatePending
    /\ number_sequence_started
    /\ WindowWeights(attention_cache) # {}
    /\ EffectiveLength(current_sequence) >= min_sequence_length
    /\ Len(finalize_sequences(Entered(self)).verification_results)
          = Len(verification_results) + 1

-----------------------------------------------------------------------------
(* C7 *)

\* the step is finalize_sequences, or __call__ with a non-sequence token at a
\* tracked position
EndsCandidate ==
    \/ Finalize
    \/ /\ input_len - 1 >= context_length + IgnoredPositions
       /\ \E token \in Tokens : ~IsSequenceChar(token) /\ Call(token)

\* C7: under a valid layout with a scoring window a candidate that a terminating token or
\* finalize_sequences ends gets a result appended if and only if its
\* alphanumeric count is at least min_sequence_length.
C7_ScoredIffLongEnough ==
    [][(ScoringLayout /\ CandidatePending /\ EndsCandidate) =>
          (AppendedOne <=>
              EffectiveLength(current_sequence) >= min_sequence_length)]_vars

-----------------------------------------------------------------------------
(* C8 *)

\* C8: under a valid layout, context_length = 0 included, no call into the
\* verifier raises, whatever the cache holds.
C8_NeverRaises == LayoutValid => raised = NoException

-----------------------------------------------------------------------------
(* C9 *)

\* C9: a verifier whose layout violates 0 <= system_prompt_length <=
\* context_length is rejected at construction, so none ever processes a
\* token or records a result.
C9_InvalidLayoutRejected ==
    ~LayoutValid => (generation_step = 0 /\ verification_results = << >>)

-----------------------------------------------------------------------------
(* C10 *)

\* C10: every step, a token callback, a cache write, a matrix read or
\* finalize_sequences, leaves the previous results as an unchanged prefix of
\* verification_results and appends at most one result.
C10_ResultsAppendOnly ==
    [][/\ Len(verification_results') <= Len(verification_results) + 1
       /\ Len(verification_results') >= Len(verification_results)
       /\ SubSeq(verification_results', 1, Len(verification_results))
             = verification_results]_vars

\* C10 witness: a second result was appended behind the first, which a token
\* recorded with the latch set.
C10_Witness ==
    /\ ScoringLayout
    /\ Len(verification_results) = 2
    /\ verification_results[1].verdict_details.number_sequence_started
    /\ attention_cache # << >>

-----------------------------------------------------------------------------
(* C11 *)

\* C11: after reset_buffers() the instance equals a freshly constructed one
\* of the same configuration: cache, tracker state, latch, running maximum
\* and results list are those __init__ leaves.
C11_ResetIsFresh ==
    [][Reset => Constructed(<< context_length, system_prompt_length >>)']_vars

-----------------------------------------------------------------------------
(* C12 *)

\* the layer the specification asks for: counted from the front or from the
\* back when in range, the last layer otherwise
ExpectedLayer ==
    IF 0 <= attention_layer_index /\ attention_layer_index < num_layers
    THEN attention_layer_index
    ELSE IF -num_layers <= attention_layer_index /\ attention_layer_index < 0
    THEN num_layers + attention_layer_index
    ELSE num_layers - 1

\* C12: for every layer count and every configured index the forward hook
\* and the post-hoc extraction read the same layer without raising, layer i
\* for 0 <= i < n, layer n + i for -n <= i < 0 and the last layer for an index
\* out of range, and a path that falls back to the last layer logs a warning.
C12_LayerSelection ==
    /\ raised = NoException
    /\ \A r \in selected_layers :
          /\ r.layer = ExpectedLayer
          /\ ~LayerInRange(attention_layer_index, num_layers)
                => r.path \in warnings

-----------------------------------------------------------------------------
(* C13 *)

\* the cached positions of generated tokens
GeneratedKeys ==
    { p \in CacheKeys(attention_cache) : p >= context_length }

LastCachedPosition ==
    CHOOSE p \in GeneratedKeys : \A q \in GeneratedKeys : q <= p

\* the row the specification asks for position pos: the cached vector cut or
\* zero-padded to length pos + 1, zeros if none is cached
ExpectedRow(pos) ==
    [k \in 1..(pos + 1) |->
        IF /\ CacheHas(attention_cache, pos)
           /\ k <= Len(CacheGet(attention_cache, pos))
        THEN CacheGet(attention_cache, pos)[k]
        ELSE 0]

\* C13: under a valid layout with a scoring window, when some position >=
\* context_length is cached, the matrix has (last cached position - context_length + 1) rows
\* and its row i is the row of position context_length + i, also when the
\* first generated positions were never cached.
C13_RowsFromContextLength ==
    (ScoringLayout /\ GeneratedKeys # {}) =>
        LET full_matrix == get_full_attention_matrix(self)
        IN /\ Len(full_matrix) = LastCachedPosition - context_length + 1
           /\ \A i \in 1..Len(full_matrix) :
                 full_matrix[i] = ExpectedRow(context_length + i - 1)

-----------------------------------------------------------------------------
(* C14 *)

\* the largest cached position
MaxCachedPosition ==
    CHOOSE p \in CacheKeys(attention_cache) :
        \A q \in CacheKeys(attention_cache) : q <= p

\* C14: the rows of the matrix are those of the consecutive positions from
\* its first row's position to the last cached position, none omitted; the
\* row of position p has length p + 1 and is all zeros if p is not cached,
\* the cached vector zero-padded on the right if that is shorter, and its
\* first p + 1 weights if it is longer; reading the matrix leaves the cache
\* unchanged.
C14_MatrixRows ==
    /\ [](attention_cache # << >> =>
            LET full_matrix == get_full_attention_matrix(self)
                start_position == MatrixStartPosition(self)
            IN /\ Len(full_matrix) =
                    Max2(0, MaxCachedPosition - start_position + 1)
               /\ \A i \in 1..Len(full_matrix) :
                     /\ Len(full_matrix[i]) = start_position + i
                     /\ full_matrix[i] = ExpectedRow(start_position + i - 1))
    /\ [][MatrixRead => attention_cache' = attention_cache]_vars

\* C14 witness: the matrix is read of a cache with a missing position
\* between a vector that is too short and one that is too long.
C14_Witness ==
    /\ ScoringLayout
    /\ CacheKeys(attention_cache) = { context_length, context_length + 2 }
    /\ Len(CacheGet(attention_cache, context_length)) = context_length
    /\ Len(CacheGet(attention_cache, context_length + 2)) > context_length + 3
    /\ Len(get_full_attention_matrix(self)) = 3

-----------------------------------------------------------------------------
(* C15 *)

\* the cached positions p >= context_length whose vector has length p
ShortByOne ==
    { p \in GeneratedKeys : Len(CacheGet(attention_cache, p)) = p }

\* the verifier with the vector at p followed by one zero
WithZeroPadded(s, p) ==
    update_attention_cache(s, p, ZeroPadded(CacheGet(s.attention_cache, p)))

-----------------------------------------------------------------------------
(* C16 *)

\* the orders the cached positions can be scanned in
ScanOrders ==
    { order \in [1..Len(attention_cache) -> 1..Len(attention_cache)] :
        \A i, j \in 1..Len(attention_cache) :
            order[i] = order[j] => i = j }

\* the verifier after the scan of lines 180-182 over the cache in that order
ScannedIn(order) ==
    ScanAttentionCache(
        [Entered(self) EXCEPT !.attention_cache =
            [i \in 1..Len(attention_cache) |-> attention_cache[order[i]]]],
        1)

\* C16: no token callback, cache write or finalize_sequences call lowers
\* max_system_attention, and the scans of the cache that run to the end
\* reach the same max_system_attention in whatever order they take the
\* positions.
C16_MaxMonotoneOrderFree ==
    /\ [][max_system_attention' >= max_system_attention]_vars
    /\ [](\A a, b \in ScanOrders :
            (ScannedIn(a).raised = NoException
               /\ ScannedIn(b).raised = NoException)
            => ScannedIn(a).max_system_attention
                 = ScannedIn(b).max_system_attention)

\* C16 witness: two positions are cached, the first with its window at the
\* threshold and the second above it, and a scan has raised
\* max_system_attention from a lower recorded value to the higher weight.
C16_Witness ==
    /\ ScoringLayout
    /\ Len(attention_cache) = 2
    /\ Len(verification_results) = 2
    /\ verification_results[1].verdict_details.max_system_attention
          = ThresholdAttention
    /\ verification_results[2].verdict_details.max_system_attention
          = HighAttention
    /\ max_system_attention = HighAttention

-----------------------------------------------------------------------------
(* C17 *)

\* C17: with max_retries = n >= 1, once the wrapper is done: if func raised
\* at every attempt it was called exactly n times and the wrapper raised its
\* last exception; if func first returns at attempt k <= n it was called
\* exactly k times and the wrapper returned its value.  Until then func was
\* called at most n times.
C17_RetryCallsExactly ==
    (retry_call.outcome # "none" /\ retry_call.max_retries >= 1) =>
        LET n == retry_call.max_retries
            k == retry_call.first_success
            succeeds == 1 <= k /\ k <= n
        IN /\ retry_call.call_count <= n
           /\ retry_call.outcome # "running" =>
                IF succeeds
                THEN /\ retry_call.outcome = "returned"
                     /\ retry_call.call_count = k
                ELSE /\ retry_call.outcome = "raised"
                     /\ retry_call.call_count = n

\* C17 witness: a function wrapped with max_retries = 3 that raises at every
\* attempt was called three times and the wrapper raised.
C17_Witness ==
    /\ retry_call.outcome = "raised"
    /\ retry_call.max_retries = 3
    /\ retry_call.first_success = 0
    /\ retry_call.call_count = 3

-----------------------------------------------------------------------------
(* C18 *)

\* this step is __call__ with a token that contains a digit at a tracked
\* position
TrackedDigitStep ==
    /\ input_len' = input_len + 1
    /\ input_len - 1 >= context_length + IgnoredPositions
    /\ ContainsDigit(last_token')

\* C18: within an episode the digit latch is one-shot: a tracked token that
\* contains a digit leaves it true, only such a token turns it from false to
\* true, and once true it stays true through every token callback, cache
\* write, matrix read and finalize_sequences call.
C18_LatchOneShot ==
    /\ [][TrackedDigitStep => number_sequence_started']_vars
    /\ [][(~number_sequence_started /\ number_sequence_started')
            => TrackedDigitStep]_vars
    /\ [][number_sequence_started => number_sequence_started']_vars

\* C18 witness: the latch is still true after a later tracked token without
\* a digit, a cache write and a recorded result.
C18_Witness ==
    /\ ScoringLayout
    /\ number_sequence_started
    /\ LastTokenTracked
    /\ ~ContainsDigit(last_token)
    /\ attention_cache # << >>
    /\ verification_results # << >>
    /\ ~CandidatePending

-----------------------------------------------------------------------------
(* C19 *)

\* this step is __call__ with a token at one of the first five generated
\* positions
EarlyTokenStep ==
    /\ input_len' = input_len + 1
    /\ context_length <= input_len - 1
    /\ input_len - 1 < context_length + IgnoredPositions

\* C19: a token at one of the first five generated positions, with or
\* without a digit, leaves the digit latch, max_system_attention and
\* verification_results as they are.
C19_EarlyTokensIgnored ==
    [][EarlyTokenStep =>
          /\ number_sequence_started' = number_sequence_started
          /\ max_system_attention' = max_system_attention
          /\ verification_results' = verification_results]_vars

\* C19 witness: the last of the first five generated tokens contains a
\* digit, a vector with a weight above the threshold is cached, and the latch
\* is false.
C19_Witness ==
    /\ ScoringLayout
    /\ LastPosition = context_length + IgnoredPositions - 1
    /\ ContainsDigit(last_token)
    /\ ~number_sequence_started
    /\ \E w \in WindowWeights(attention_cache) : w > max_attention_threshold

-----------------------------------------------------------------------------
(* C20 *)

\* the vectors cached behind the first five generated positions
LateCache(cache) ==
    SelectSeq(cache,
              LAMBDA entry :
                  entry.position >= context_length + IgnoredPositions)

\* C20: under a valid layout with a scoring window, the vectors cached at
\* the first five generated positions are left out of scoring: a step that
\* raises max_system_attention raises it to a window weight of a vector
\* cached at a later position, and a result is VERIFIED only if the running
\* maximum was above the threshold already or such a later vector has a
\* window weight above it.
C20_EarlyVectorsUnscored ==
    /\ [][(ScoringLayout /\ max_system_attention' > max_system_attention)
            => max_system_attention'
                 \in WindowWeights(LateCache(attention_cache'))]_vars
    /\ [][(ScoringLayout /\ AppendedOne /\ IsVerified(Appended))
            => \/ max_system_attention > max_attention_threshold
               \/ \E w \in WindowWeights(LateCache(attention_cache')) :
                     w > max_attention_threshold]_vars

-----------------------------------------------------------------------------
(* C21 *)

\* the verifier with every vector cached for a generated position p cut or
\* zero-padded on the right to length p + 1
WithExpectedRows ==
    [Entered(self) EXCEPT !.attention_cache =
        [i \in 1..Len(attention_cache) |->
            IF attention_cache[i].position >= context_length
            THEN [position |-> attention_cache[i].position,
                  weights  |-> ExpectedRow(attention_cache[i].position)]
            ELSE attention_cache[i]]]

\* C21: under a valid layout with a scoring window, an evaluation with the
\* latch set that records a result leaves max_system_attention as the scan
\* of the same cache would with every vector of a generated position p
\* zero-padded on the right or cut to length p + 1, whatever the vectors'
\* lengths, lengths below system_prompt_length included.
C21_ScoredAsPadded ==
    [][(ScoringLayout /\ AppendedOne /\ number_sequence_started')
          => max_system_attention'
               = ScanAttentionCache(WithExpectedRows, 1).max_system_attention]_vars

-----------------------------------------------------------------------------
(* C22 *)

\* C22: in an episode driven through the forward hook and the post-hoc
\* extraction every key of attention_cache is a position >= context_length,
\* and no step removes a key.
C22_KeysAtGeneratedPositions ==
    /\ [](\A p \in CacheKeys(attention_cache) : p >= context_length)
    /\ [][CacheKeys(attention_cache) \subseteq CacheKeys(attention_cache')]_vars

-----------------------------------------------------------------------------
(* C23 *)

\* C23: every vector cached under a key p has length p + 1, whichever
\* adapter wrote it, and the post-hoc extraction puts the row of a forward
\* pass where the forward hook put it: it leaves the vectors the hook cached
\* as they are.
C23_RowLengthMatchesKey ==
    /\ [](\A i \in 1..Len(attention_cache) :
            Len(attention_cache[i].weights) = attention_cache[i].position + 1)
    /\ [][PostHocExtraction =>
            \A p \in CacheKeys(attention_cache) :
                CacheGet(attention_cache', p) = CacheGet(attention_cache, p)]_vars

-----------------------------------------------------------------------------
(* C24 *)

\* the object apart from its cache
WithoutCache(s) == [s EXCEPT !.attention_cache = << >>]

\* cache differs from before in the entry of position only, which is
\* attention_weights
WrittenAt(cache, before, position, attention_weights) ==
    /\ CacheKeys(cache) = CacheKeys(before) \cup { position }
    /\ CacheGet(cache, position) = attention_weights
    /\ \A q \in CacheKeys(before) \ { position } :
          CacheGet(cache, q) = CacheGet(before, q)

\* C24: in whatever order the adapters write, update_attention_cache(p, v)
\* leaves v as the entry of p, over any vector written there before, and
\* changes no other position's entry, no tracker state and no result; and
\* every step of an episode that changes the cache is one such write.
C24_LastWriteWins ==
    /\ [](\A position \in PaddingPositions :
            \A attention_weights \in PaddingVectors(position) :
                LET written == update_attention_cache(
                                   Entered(self), position, attention_weights)
                IN /\ WrittenAt(written.attention_cache, attention_cache,
                                position, attention_weights)
                   /\ WithoutCache(written) = WithoutCache(Entered(self)))
    /\ [][attention_cache' # attention_cache =>
            /\ \E position \in PaddingPositions :
                  \E attention_weights \in PaddingVectors(position) :
                      WrittenAt(attention_cache', attention_cache,
                                position, attention_weights)
            /\ UNCHANGED << current_sequence, sequence_start_pos,
                            sequence_tokens, number_sequence_started,
                            max_system_attention, verification_results,
                            generated_text_len, generation_step >>]_vars

\* C24 witness: a result was recorded from the vector cached at a position,
\* that vector was then overwritten with one whose window is higher, and the
\* next result was recorded from the new vector: the cache holds one entry.
C24_Witness ==
    /\ ScoringLayout
    /\ Len(attention_cache) = 1
    /\ Len(verification_results) = 2
    /\ verification_results[1].verdict_details.max_system_attention
          = ThresholdAttention
    /\ verification_results[2].verdict_details.max_system_attention
          = HighAttention

-----------------------------------------------------------------------------
(* C25 *)

\* this step is __call__ with a token at a tracked position
TrackedTokenStep ==
    /\ input_len' = input_len + 1
    /\ input_len - 1 >= context_length + IgnoredPositions

\* the candidate pending before this step is one to score
CompletesLongRun ==
    /\ CandidatePending
    /\ EffectiveLength(current_sequence) >= min_sequence_length

\* this step ends the run of sequence-char tokens: the tracker is idle after
\* it, and one result is appended if the run was long enough and none
\* otherwise
EndsRunOnce ==
    /\ ~CandidatePending'
    /\ sequence_start_pos' = -1
    /\ IF CompletesLongRun THEN AppendedOne
       ELSE verification_results' = verification_results

\* C25: under a valid layout with a scoring window the verdict rule runs
\* exactly once for each maximal run of tracked sequence-char tokens whose
\* alphanumeric count reaches min_sequence_length: a tracked sequence-char
\* token extends the candidate and records nothing; a tracked token of
\* another kind, and finalize_sequences, leave the tracker idle and append
\* one result if the candidate they end is long enough and none otherwise;
\* so no candidate is scored twice or carried past its terminator.
C25_OncePerCompletedRun ==
    /\ [][(ScoringLayout /\ TrackedTokenStep /\ IsSequenceChar(last_token'))
            => /\ current_sequence' = current_sequence \o Upper(last_token')
               /\ verification_results' = verification_results]_vars
    /\ [][(ScoringLayout /\ TrackedTokenStep /\ ~IsSequenceChar(last_token'))
            => EndsRunOnce]_vars
    /\ [][(ScoringLayout /\ Finalize) => EndsRunOnce]_vars

-----------------------------------------------------------------------------
(* C26 *)

\* place of a verdict in the order NO_NUMBER_DETECTED, HALLUCINATION_DETECTED,
\* VERIFIED
VerdictRank(result) ==
    CASE result.final_verdict = "NO_NUMBER_DETECTED" -> 0
      [] result.final_verdict = "HALLUCINATION_DETECTED" -> 1
      [] result.final_verdict = "VERIFIED" -> 2

\* C26: within one episode the verdicts of verification_results are ordered
\* NO_NUMBER_DETECTED* HALLUCINATION_DETECTED* VERIFIED*: no result other than
\* NO_NUMBER_DETECTED is followed by a NO_NUMBER_DETECTED one, and a VERIFIED
\* result is followed by VERIFIED results only, whatever the later candidates
\* contain and whatever is written to the cache in between.
C26_VerdictsOrdered ==
    \A i, j \in 1..Len(verification_results) :
        i < j => VerdictRank(verification_results[i])
                   <= VerdictRank(verification_results[j])

\* C26 witness: three results, one of each verdict, the VERIFIED one for a
\* candidate without a digit, recorded after the cached vector was replaced
\* by one whose window is at the threshold.
C26_Witness ==
    /\ ScoringLayout
    /\ Len(verification_results) = 3
    /\ IsNoNumber(verification_results[1])
    /\ IsHallucinationDetected(verification_results[2])
    /\ IsVerified(verification_results[3])
    /\ \A i \in 1..Len(verification_results[3].sequence) :
          verification_results[3].sequence[i] \notin Digits
    /\ \A w \in WindowWeights(attention_cache) : w <= max_attention_threshold
    /\ attention_cache # << >>

-----------------------------------------------------------------------------
(* C27 *)

\* run_verification is behind its finally clause and goes on
PastFinally == pc \in { "extract", "collect", "done" }

\* the post-hoc extraction has written to the cache
Extracted == \E r \in selected_layers : r.path = "post_hoc"

\* C27: in run_verification finalize_sequences has run, leaving no candidate
\* pending, before the cache is written by the post-hoc extraction and
\* before the results are read, and it has run too when generate raised;
\* every result is appended before the extraction, so from vectors the hook
\* cached; and the extraction and the read change neither the results nor
\* max_system_attention.
C27_FinalizeBeforeExtraction ==
    /\ [](PastFinally => ~CandidatePending)
    /\ []((pc = "propagated" /\ raised = NoException) => ~CandidatePending)
    /\ [](Extracted => PastFinally)
    /\ [][AppendedOne =>
            /\ pc \in { "generate", "finally", "finally, exception pending" }
            /\ ~Extracted']_vars
    /\ [][PastFinally =>
            /\ verification_results' = verification_results
            /\ max_system_attention' = max_system_attention]_vars

\* C27 witness: the results were read after the extraction had put a weight
\* above the threshold into the window of a cached vector, and the result
\* that finalize_sequences recorded from the hook's vectors is still
\* HALLUCINATION_DETECTED under a max_system_attention below the threshold.
C27_Witness ==
    /\ pc = "done"
    /\ Extracted
    /\ verification_results # << >>
    /\ IsHallucinationDetected(verification_results[Len(verification_results)])
    /\ IsSequenceChar(last_token)
    /\ max_system_attention <= max_attention_threshold
    /\ \E w \in WindowWeights(attention_cache) : w > max_attention_threshold

-----------------------------------------------------------------------------
(* C28 *)

\* the latch was set when the result was evaluated
LatchSetAt(result) == result.verdict_details.number_sequence_started

\* C28: with system_prompt_length <= 5 and a threshold >= 0,
\* max_system_attention is 0.0 throughout the episode whatever is cached,
\* every result evaluated with the latch set is HALLUCINATION_DETECTED, and
\* no result is VERIFIED.
C28_NoWindowNoVerified ==
    (system_prompt_length <= 5 /\ max_attention_threshold >= 0) =>
        /\ max_system_attention = 0
        /\ \A i \in 1..Len(verification_results) :
              /\ LatchSetAt(verification_results[i])
                    => IsHallucinationDetected(verification_results[i])
              /\ ~IsVerified(verification_results[i])
              /\ verification_results[i].verdict_details.max_system_attention
                    = 0

\* C28 witness: with a system prompt of five tokens two results were
\* recorded, the last with the latch set, and a vector of full length with
\* 0.35 at index 5 is cached.
C28_Witness ==
    /\ system_prompt_length = 5
    /\ verification_results # << >>
    /\ LatchSetAt(verification_results[Len(verification_results)])
    /\ \E i \in 1..Len(attention_cache) :
          /\ Len(attention_cache[i].weights) > context_length
          /\ attention_cache[i].weights[StartIdx + 1] = HighAttention
    /\ Len(verification_results) = 2
    /\ verification_results[1].verdict_details.max_system_attention = 0

-----------------------------------------------------------------------------
(* C29 *)

\* C29: for every layer count and every configured index, negative indexes
\* out of range included, the layer that run_verification announces at
\* start-up is the layer the forward hook and the post-hoc extraction read.
C29_AnnouncedLayerIsUsed ==
    \A r \in selected_layers :
        r.layer = actual_layer(attention_layer_index, num_layers)

-----------------------------------------------------------------------------
(* C30 *)

\* this step is __call__ at a tracked position with a token that contains a
\* digit and is not a sequence-char token, while the latch is false and a
\* candidate of sufficient length is pending
DigitTerminatorStep ==
    /\ TrackedTokenStep
    /\ ContainsDigit(last_token')
    /\ ~IsSequenceChar(last_token')
    /\ ~number_sequence_started
    /\ CompletesLongRun

\* the result is the one the threshold rule gives for maximum
ByThresholdRule(result, maximum) ==
    /\ LatchSetAt(result)
    /\ IF maximum <= max_attention_threshold
       THEN IsHallucinationDetected(result)
       ELSE IsVerified(result)

\* C30: a digit-bearing non-sequence-char token such as "1." that ends a
\* candidate of sufficient length while the latch is false sets the latch
\* before the candidate is evaluated: the latch is true afterwards and the
\* candidate is evaluated by the attention threshold rule, whether it
\* contains a digit or not; the result appended is HALLUCINATION_DETECTED or
\* VERIFIED by max_system_attention, never NO_NUMBER_DETECTED, and none is
\* appended only if the scan of that rule raised.
C30_LatchBeforeEvaluation ==
    [][DigitTerminatorStep =>
          /\ number_sequence_started'
          /\ IF raised' = NoException
             THEN /\ AppendedOne
                  /\ ByThresholdRule(Appended, max_system_attention')
                  /\ ~IsNoNumber(Appended)
             ELSE verification_results' = verification_results]_vars

\* C30 witness: the first two tracked tokens were a word and "1.", and the
\* one result, for the word, which has no digit, is VERIFIED.
C30_Witness ==
    /\ ScoringLayout
    /\ LastPosition = context_length + IgnoredPositions + 1
    /\ last_token = DigitStopToken
    /\ Len(verification_results) = 1
    /\ verification_results[1].tokens = << WordToken >>
    /\ IsVerified(verification_results[1])
    /\ number_sequence_started

=============================================================================
